---- MODULE Spec2Model ----
(***************************************************************************)
(* Model of aicacia/go-expiringmap (src/expiringmap.go): ExpiringMap, a    *)
(* map whose entries carry an absolute deadline and are evicted lazily by  *)
(* the reads that find them expired.  The backing cmap.CMap is an external *)
(* collaborator; its primitives are modelled as atomic steps, the CMap     *)
(* operators.                                                              *)
(* Every ExpiringMap method is one action per atomic step of its code: a   *)
(* cmap call or a time.Now() reading.  The wall clock is the variable now, *)
(* advanced by Tick between any two steps.  Iter, Keys and Values add the   *)
(* go func() they start and the unbuffered channel it sends on.            *)
(***************************************************************************)
EXTENDS Integers, Sequences, FiniteSets, TLC

\* ------------------------------------------------------------- bounds
NumKeys == 2
NumVals == 2
MaxTime == 1
NumThreads == 2
MaxCalls == 2
MaxSeqCalls == 3
NumConcKeys == 1

Keys == 1..NumKeys
\* The values of V; 0 stands for V's zero value, *new(V).
Vals == 0..(NumVals - 1)
ZeroVal == 0
\* time.Time values a deadline can take: the clock runs over 0..MaxTime, and
\* MaxTime + 1 is a deadline it does not pass.
Times == 0..(MaxTime + 1)
Threads == 1..NumThreads

VARIABLES
    items,   \* ExpiringMap.items: the backing cmap, key -> expiringMapVal or absent
    now,     \* the wall clock that time.Now() reads
    th,      \* per goroutine: the call it is in (or has last returned from)
    calls,   \* per goroutine: calls started so far
    mode,    \* which program runs: "conc", "seq", "writers" or "iter"
    prev,    \* per goroutine: summary of the call returned before the current one
    hist,    \* per key: what the calls so far did to it (history, "conc" only)
    script,  \* progress of the writers program (TestAsyncCount)
    ch       \* the channel Iter, Keys or Values made, and its consumer

vars == <<items, now, th, calls, mode, prev, hist, script, ch>>

\* ------------------------------------------------------------- data
\* expiringMapVal{val, ttl}; ok = FALSE is "no entry under this key".
NoEntry == [ok |-> FALSE, val |-> ZeroVal, ttl |-> 0]

NewItem(v, d) == [ok |-> TRUE, val |-> v, ttl |-> d]

EmptyMap == [k \in Keys |-> NoEntry]

\* Faulty variant: a deadline equal to the clock reading counts as passed.
Expired_OrEqual(e, t) == e.ttl <= t

\* item.ttl.Before(t): strictly earlier.
Expired(e, t) == e.ttl < t

Live(e, t) == e.ok /\ ~Expired(e, t)

\* ------------------------------------------------- cmap primitives
CMapGet(m, k) == m[k]

CMapSet(m, k, e) == [map |-> [m EXCEPT ![k] = e], ret |-> m[k].ok]

CMapSetIfAbsent(m, k, e) ==
    [map |-> IF m[k].ok THEN m ELSE [m EXCEPT ![k] = e], ret |-> ~m[k].ok]

CMapLoadOrStore(m, k, e) ==
    [map |-> IF m[k].ok THEN m ELSE [m EXCEPT ![k] = e],
     item |-> IF m[k].ok THEN m[k] ELSE e,
     loaded |-> m[k].ok]

CMapDelete(m, k) == [map |-> [m EXCEPT ![k] = NoEntry], ret |-> m[k].ok]

CMapRemove(m, k) == [map |-> [m EXCEPT ![k] = NoEntry], ret |-> m[k].ok]

CMapClear(m) == [k \in Keys |-> NoEntry]

\* ------------------------------------------------- goroutine records
\* pc: "idle" (no call yet), "check"/"write"/"evict"/"loop" (inside a call),
\* "done" (returned; retVal/retOk/retN hold the results).
\* item: the entry the call read; tnow: the clock value it read;
\* todo: keys the traversal has not reached; log: the visits made;
\* History of the call: at, the clock when it started; ph, the phase of the
\* writers program then; pre, the map then; evicted, the entry its lazy
\* delete removed; g, for a Get, the entry the last Set left under its key;
\* vis, the clock when the traversal of Iter, Keys or Values made its last visit.
Blank ==
    [pc |-> "idle", op |-> "None", key |-> 1, val |-> ZeroVal, ttl |-> 0,
     item |-> NoEntry, tnow |-> 0, todo |-> {}, log |-> <<>>, count |-> 0,
     retVal |-> ZeroVal, retOk |-> FALSE, retN |-> 0,
     at |-> 0, ph |-> "off", pre |-> EmptyMap, evicted |-> NoEntry, g |-> NoEntry,
     vis |-> 0]

\* absent: the keys that the call, and the calls before it back to the last
\* Set, SetIfAbsent or GetOrSet, reported absent or evicted; cnt: the number of
\* entries the last traversal among them that ran to its end visited, -1 when
\* there is none.
NoPrev == [op |-> "None", key |-> 1, val |-> ZeroVal, ttl |-> 0,
           retVal |-> ZeroVal, retOk |-> FALSE, retN |-> 0, tnow |-> 0, at |-> 0,
           evicted |-> FALSE, absent |-> {}, cnt |-> -1]

\* The keys of the visits logged in log.
VisitedKeys(log) == {log[i].key : i \in 1..Len(log)}

\* A traversal that no visit stopped.
RanToEnd(r) ==
    r.op \in {"Range", "Len", "IsEmpty"} /\ \A i \in 1..Len(r.log) : r.log[i].cont

Summary(r) == [op |-> r.op, key |-> r.key, val |-> r.val, ttl |-> r.ttl,
               retVal |-> r.retVal, retOk |-> r.retOk, retN |-> r.retN,
               tnow |-> r.tnow, at |-> r.at, evicted |-> r.evicted.ok,
               absent |->
                  CASE r.op \in {"Get", "Has"} -> IF r.retOk THEN {} ELSE {r.key}
                    [] RanToEnd(r) -> Keys \ VisitedKeys(r.log)
                    [] r.op = "Range" -> {k \in Keys : r.pre[k].ok /\ ~items[k].ok}
                    [] OTHER -> {},
               cnt |-> IF RanToEnd(r) THEN Len(r.log) ELSE -1]

\* The summary s of a call, after the summary p of the calls before it.
Since(p, s) ==
    IF s.op \in {"Set", "SetIfAbsent", "GetOrSet"}
      THEN s
      ELSE [s EXCEPT !.absent = @ \cup p.absent,
                     !.cnt = IF @ >= 0 THEN @ ELSE p.cnt]

NoHist == [lastSet |-> EmptyMap, grp |-> [k \in Keys |-> {}],
           saw |-> [t \in Threads |-> {}]]

NoScript == [phase |-> "off", wrote |-> EmptyMap, deleted |-> {}, got |-> {},
             counted |-> FALSE]

\* make(chan ...): unbuffered.  made: Iter, Keys or Values has been called;
\* closed: close(ch) has run; rcv: the items received so far, each with the
\* entry it was made from and the clock at the visit (vis) and at the receive
\* (at); cons: the consumer, "none" before the call, then "recv" (in its
\* for-range loop), "drained" (the loop ended on the closed channel) or "left"
\* (it stopped receiving).
NoChan == [made |-> FALSE, closed |-> FALSE, rcv |-> <<>>, cons |-> "none"]

IterOps == {"Iter", "Keys", "Values"}

\* In "iter", goroutine Consumer calls Iter, Keys or Values and ranges over
\* the channel; goroutine Producer is the go func() of that call.
Consumer == 1

Producer == 2

Active == IF mode = "seq" THEN {1} ELSE Threads

\* Deadlines the callers pass: every time value, and in "conc" the two that
\* matter there, one the clock passes and one it never reaches.
Deadlines == IF mode = "conc" THEN {0, MaxTime + 1} ELSE Times

\* The keys the callers pass: in "conc" the goroutines contend for the first
\* NumConcKeys keys.
CallKeys == IF mode = "conc" THEN 1..NumConcKeys ELSE Keys

\* The clock stops at MaxTime; the writers program runs one tick longer, so
\* that a deadline written in the future can pass.
ClockMax == IF mode = "writers" THEN MaxTime + 1 ELSE MaxTime

\* The keys goroutine t of the writers program writes and deletes.
Own(t) == {k \in Keys : ((k - 1) % NumThreads) + 1 = t}

\* TestAsyncCount and TestConcurrent: the goroutines Set their own keys with
\* deadlines in the future; after the barrier the main goroutine (1) reads Len
\* and Gets the keys; the goroutines Delete their own keys; after the second
\* barrier the main goroutine reads Len.
WritersMay(t, op, k, d) ==
    CASE script.phase = "set" ->
            op = "Set" /\ k \in Own(t) /\ ~script.wrote[k].ok /\ d > now
      [] script.phase = "check" ->
            /\ t = 1
            /\ \/ op = "Len" /\ ~script.counted
               \/ op = "Get" /\ k \notin script.got
      [] script.phase = "delete" ->
            op = "Delete" /\ k \in Own(t) /\ k \notin script.deleted
      [] script.phase = "final" ->
            t = 1 /\ op = "Len" /\ ~script.counted
      [] OTHER -> FALSE

\* A goroutine may start a call when it is in none and its program allows it:
\* MaxCalls calls per goroutine in "conc", MaxSeqCalls for the one of "seq".
CanCall(t, op, k, d) ==
    /\ t \in Active
    /\ th[t].pc \in {"idle", "done"}
    /\ d \in Deadlines
    /\ k \in CallKeys
    /\ CASE mode = "conc" -> calls[t] < MaxCalls
         [] mode = "seq" -> calls[t] < MaxSeqCalls
         [] mode = "iter" -> /\ t = Consumer
                             /\ ch.cons = "none"
                             /\ \/ op \in IterOps
                                \/ op = "Set" /\ calls[t] < MaxCalls
         [] OTHER -> WritersMay(t, op, k, d)

\* The record of a call that starts now.
Begin(op, k, v, d) ==
    [Blank EXCEPT !.pc = "done", !.op = op, !.key = k, !.val = v, !.ttl = d,
                  !.at = now, !.ph = script.phase,
                  !.pre = IF mode = "conc" THEN EmptyMap ELSE items]

\* The values map m holds under key k: one or none.
StoredVals(m, k) == IF m[k].ok THEN {m[k].val} ELSE {}

\* History: saw[u] is the set of the values the map held under the key of the
\* GetOrSet goroutine u is in (or has last returned from), at some moment
\* from the start of that call to its return.  Goroutine t takes the step;
\* entering tells whether the step starts a call, of operation op on key k.
SawNext(t, entering, op, k) ==
    [u \in Threads |->
        CASE u = t /\ entering ->
                IF op = "GetOrSet" THEN StoredVals(items, k) \cup StoredVals(items', k)
                                   ELSE {}
          [] th[u].op = "GetOrSet" /\ th[u].pc \notin {"idle", "done"} ->
                hist.saw[u] \cup StoredVals(items', th[u].key)
          [] OTHER -> hist.saw[u]]

\* History: lastSet[k] is the entry a Set with a deadline in the future left
\* under k, until a Set, GetOrSet, Delete, Remove or Clear comes to k;
\* grp[k] is the set of goroutines in (or back from) a GetOrSet on k since a
\* call other than GetOrSet last came to k.
HistEnter(t, r) ==
    LET ls == hist.lastSet
        gr == [k \in Keys |-> hist.grp[k] \ {t}]
    IN  [lastSet |->
            CASE r.op = "Set" ->
                    [ls EXCEPT ![r.key] = IF r.ttl > now THEN NewItem(r.val, r.ttl)
                                                         ELSE NoEntry]
              [] r.op \in {"GetOrSet", "Delete", "Remove"} ->
                    [ls EXCEPT ![r.key] = NoEntry]
              [] r.op = "Clear" -> EmptyMap
              [] OTHER -> ls,
         grp |->
            CASE r.op = "GetOrSet" -> [gr EXCEPT ![r.key] = @ \cup {t}]
              [] r.op \in {"SetIfAbsent", "Set", "Delete", "Remove", "Has", "Get"} ->
                    [gr EXCEPT ![r.key] = {}]
              [] r.op = "Clear" -> [k \in Keys |-> {}]
              [] OTHER -> gr,
         saw |-> SawNext(t, TRUE, r.op, r.key)]

HistStep(t, touched) ==
    [lastSet |-> IF th[t].op = "GetOrSet"
                   THEN [hist.lastSet EXCEPT ![th[t].key] = NoEntry]
                   ELSE hist.lastSet,
     grp |-> [k \in Keys |-> IF k \in touched THEN {} ELSE hist.grp[k]],
     saw |-> SawNext(t, FALSE, th[t].op, th[t].key)]

ScriptEnter(r) ==
    CASE r.op = "Set" -> [script EXCEPT !.wrote[r.key] = NewItem(r.val, r.ttl)]
      [] r.op = "Delete" -> [script EXCEPT !.deleted = @ \cup {r.key}]
      [] r.op = "Get" -> [script EXCEPT !.got = @ \cup {r.key}]
      [] r.op = "Len" -> [script EXCEPT !.counted = TRUE]
      [] OTHER -> script

\* Bookkeeping of a call's first step.
Enter(t, r) ==
    /\ th' = [th EXCEPT ![t] =
                [r EXCEPT !.g = IF r.op = "Get" THEN hist.lastSet[r.key] ELSE NoEntry]]
    /\ calls' = IF mode = "writers" THEN calls ELSE [calls EXCEPT ![t] = @ + 1]
    /\ prev' = [prev EXCEPT ![t] =
                   IF mode = "seq" /\ th[t].pc = "done" THEN Since(@, Summary(th[t]))
                                                        ELSE @]
    /\ hist' = IF mode = "conc" THEN HistEnter(t, r) ELSE hist
    /\ script' = IF mode = "writers" THEN ScriptEnter(r) ELSE script
    /\ UNCHANGED <<now, mode, ch>>

\* Bookkeeping of a later step of a call, which comes to the keys in touched.
Step(t, r, touched) ==
    /\ th' = [th EXCEPT ![t] = r]
    /\ hist' = IF mode = "conc" THEN HistStep(t, touched) ELSE hist
    /\ UNCHANGED <<now, mode, calls, prev, script, ch>>

InCall(t, op, pc) == t \in Active /\ th[t].op = op /\ th[t].pc = pc

\* ------------------------------------------------------------- clock
Tick ==
    /\ now < ClockMax
    /\ now' = now + 1
    /\ UNCHANGED <<items, th, calls, mode, prev, hist, script, ch>>

\* ------------------------------------------------------ single-step calls
\* Faulty variant: SetIfAbsent takes an expired entry for no entry, as the
\* reads do.
SetIfAbsent_EvictStale(t, k, v, d) ==
    /\ CanCall(t, "SetIfAbsent", k, d)
    /\ LET m == IF items[k].ok /\ Expired(items[k], now)
                  THEN CMapDelete(items, k).map ELSE items
           r == CMapSetIfAbsent(m, k, NewItem(v, d)) IN
        /\ items' = r.map
        /\ Enter(t, [Begin("SetIfAbsent", k, v, d) EXCEPT !.retOk = r.ret])

SetIfAbsent(t, k, v, d) ==
    /\ CanCall(t, "SetIfAbsent", k, d)
    /\ LET r == CMapSetIfAbsent(items, k, NewItem(v, d)) IN
        /\ items' = r.map
        /\ Enter(t, [Begin("SetIfAbsent", k, v, d) EXCEPT !.retOk = r.ret])

\* Faulty variant: Set on a key that has an entry changes the value in place
\* and leaves the deadline of that entry.
Set_KeepDeadline(t, k, v, d) ==
    /\ CanCall(t, "Set", k, d)
    /\ LET r == CMapSet(items, k, NewItem(v, IF items[k].ok THEN items[k].ttl ELSE d)) IN
        /\ items' = r.map
        /\ Enter(t, [Begin("Set", k, v, d) EXCEPT !.retOk = r.ret])

Set(t, k, v, d) ==
    /\ CanCall(t, "Set", k, d)
    /\ LET r == CMapSet(items, k, NewItem(v, d)) IN
        /\ items' = r.map
        /\ Enter(t, [Begin("Set", k, v, d) EXCEPT !.retOk = r.ret])

\* Faulty variant: Delete leaves an expired entry to the lazy eviction.
Delete_OnlyLive(t, k) ==
    /\ CanCall(t, "Delete", k, 0)
    /\ LET r == IF Live(items[k], now) THEN CMapDelete(items, k)
                                       ELSE [map |-> items, ret |-> items[k].ok] IN
        /\ items' = r.map
        /\ Enter(t, [Begin("Delete", k, ZeroVal, 0) EXCEPT !.retOk = r.ret])

Delete(t, k) ==
    /\ CanCall(t, "Delete", k, 0)
    /\ LET r == CMapDelete(items, k) IN
        /\ items' = r.map
        /\ Enter(t, [Begin("Delete", k, ZeroVal, 0) EXCEPT !.retOk = r.ret])

Remove(t, k) ==
    /\ CanCall(t, "Remove", k, 0)
    /\ LET r == CMapRemove(items, k) IN
        /\ items' = r.map
        /\ Enter(t, [Begin("Remove", k, ZeroVal, 0) EXCEPT !.retOk = r.ret])

\* Faulty variant: Clear removes the expired entries only.
Clear_OnlyExpired(t) ==
    /\ CanCall(t, "Clear", 1, 0)
    /\ items' = [k \in Keys |-> IF Live(items[k], now) THEN items[k] ELSE NoEntry]
    /\ Enter(t, Begin("Clear", 1, ZeroVal, 0))

Clear(t) ==
    /\ CanCall(t, "Clear", 1, 0)
    /\ items' = CMapClear(items)
    /\ Enter(t, Begin("Clear", 1, ZeroVal, 0))

\* ------------------------------------------------------------- GetOrSet
GetOrSet_LoadOrStore(t, k, v, d) ==
    /\ CanCall(t, "GetOrSet", k, d)
    /\ LET r == CMapLoadOrStore(items, k, NewItem(v, d)) IN
        /\ items' = r.map
        /\ Enter(t, [Begin("GetOrSet", k, v, d) EXCEPT !.pc = "check", !.item = r.item])

\* Faulty variant: GetOrSet returns what LoadOrStore gave it, expired or not.
GetOrSet_Check_NoExpiry(t) ==
    /\ InCall(t, "GetOrSet", "check")
    /\ UNCHANGED items
    /\ Step(t, [th[t] EXCEPT !.pc = "done", !.tnow = now,
                             !.retVal = th[t].item.val], {})

GetOrSet_Check(t) ==
    /\ InCall(t, "GetOrSet", "check")
    /\ UNCHANGED items
    /\ IF Expired(th[t].item, now)
         THEN Step(t, [th[t] EXCEPT !.pc = "write", !.tnow = now], {})
         ELSE Step(t, [th[t] EXCEPT !.pc = "done", !.tnow = now,
                                    !.retVal = th[t].item.val], {})

\* Faulty variant: after the Set, GetOrSet returns the value of the expired
\* entry it had loaded.
GetOrSet_Set_ReturnsOld(t) ==
    /\ InCall(t, "GetOrSet", "write")
    /\ items' = CMapSet(items, th[t].key, NewItem(th[t].val, th[t].ttl)).map
    /\ Step(t, [th[t] EXCEPT !.pc = "done", !.retVal = th[t].item.val], {})

\* Faulty variant: GetOrSet returns its value without the Set that stores it.
GetOrSet_Set_Forgotten(t) ==
    /\ InCall(t, "GetOrSet", "write")
    /\ UNCHANGED items
    /\ Step(t, [th[t] EXCEPT !.pc = "done", !.retVal = th[t].val], {})

GetOrSet_Set(t) ==
    /\ InCall(t, "GetOrSet", "write")
    /\ items' = CMapSet(items, th[t].key, NewItem(th[t].val, th[t].ttl)).map
    /\ Step(t, [th[t] EXCEPT !.pc = "done", !.retVal = th[t].val], {})

\* ------------------------------------------------------------- Has
Has_Get(t, k) ==
    /\ CanCall(t, "Has", k, 0)
    /\ UNCHANGED items
    /\ LET e == CMapGet(items, k) IN
        IF e.ok
          THEN Enter(t, [Begin("Has", k, ZeroVal, 0) EXCEPT !.pc = "check", !.item = e])
          ELSE Enter(t, [Begin("Has", k, ZeroVal, 0) EXCEPT !.retOk = FALSE])

\* Faulty variant: Has takes the entries that have not expired for expired.
Has_Check_Inverted(t) ==
    /\ InCall(t, "Has", "check")
    /\ UNCHANGED items
    /\ IF ~Expired(th[t].item, now)
         THEN Step(t, [th[t] EXCEPT !.pc = "evict", !.tnow = now], {})
         ELSE Step(t, [th[t] EXCEPT !.pc = "done", !.tnow = now, !.retOk = TRUE], {})

Has_Check(t) ==
    /\ InCall(t, "Has", "check")
    /\ UNCHANGED items
    /\ IF Expired(th[t].item, now)
         THEN Step(t, [th[t] EXCEPT !.pc = "evict", !.tnow = now], {})
         ELSE Step(t, [th[t] EXCEPT !.pc = "done", !.tnow = now, !.retOk = TRUE], {})

Has_Delete(t) ==
    /\ InCall(t, "Has", "evict")
    /\ items' = CMapDelete(items, th[t].key).map
    /\ Step(t, [th[t] EXCEPT !.pc = "done", !.retOk = FALSE,
                             !.evicted = items[th[t].key]], {th[t].key})

\* ------------------------------------------------------------- Get
Get_Get(t, k) ==
    /\ CanCall(t, "Get", k, 0)
    /\ UNCHANGED items
    /\ LET e == CMapGet(items, k) IN
        IF e.ok
          THEN Enter(t, [Begin("Get", k, ZeroVal, 0) EXCEPT !.pc = "check", !.item = e])
          ELSE Enter(t, [Begin("Get", k, ZeroVal, 0) EXCEPT
                            !.retVal = ZeroVal, !.retOk = FALSE])

Get_Check(t) ==
    /\ InCall(t, "Get", "check")
    /\ UNCHANGED items
    /\ IF Expired(th[t].item, now)
         THEN Step(t, [th[t] EXCEPT !.pc = "evict", !.tnow = now], {})
         ELSE Step(t, [th[t] EXCEPT !.pc = "done", !.tnow = now,
                                    !.retVal = th[t].item.val, !.retOk = TRUE], {})

\* Faulty variant: Get reports the expired entry absent and leaves it in the map.
Get_Delete_Forgotten(t) ==
    /\ InCall(t, "Get", "evict")
    /\ UNCHANGED items
    /\ Step(t, [th[t] EXCEPT !.pc = "done", !.retVal = ZeroVal, !.retOk = FALSE], {})

Get_Delete(t) ==
    /\ InCall(t, "Get", "evict")
    /\ items' = CMapDelete(items, th[t].key).map
    /\ Step(t, [th[t] EXCEPT !.pc = "done", !.retVal = ZeroVal, !.retOk = FALSE,
                             !.evicted = items[th[t].key]], {th[t].key})

\* ------------------------------------------------------------- Range
\* Range, and Len and IsEmpty, which run Range with a counting callback.
RangeOps == {"Range", "Len", "IsEmpty"}

\* Faulty variant: the counter of Len is not reset, it goes on from the count
\* of the call before.
Range_Now_KeepCount(t, op) ==
    /\ CanCall(t, op, 1, 0)
    /\ op \in RangeOps
    /\ UNCHANGED items
    /\ Enter(t, [Begin(op, 1, ZeroVal, 0) EXCEPT !.pc = "loop", !.tnow = now,
                                                !.todo = Keys, !.count = th[t].count])

\* now := time.Now(), read once before the traversal.
Range_Now(t, op) ==
    /\ CanCall(t, op, 1, 0)
    /\ op \in RangeOps
    /\ UNCHANGED items
    /\ Enter(t, [Begin(op, 1, ZeroVal, 0) EXCEPT !.pc = "loop", !.tnow = now,
                                                !.todo = Keys])

\* Faulty variant: the closure of Range returns true whatever the callback
\* returned, and the traversal goes on.
Visited_IgnoreStop(r, k, v, cont) ==
    [r EXCEPT !.todo = @ \ {k}, !.key = k, !.evicted = NoEntry,
              !.log = IF mode # "conc"
                        THEN Append(@, [key |-> k, val |-> v, cont |-> cont])
                        ELSE @,
              !.count = IF r.op \in {"Len", "IsEmpty"} THEN @ + 1 ELSE @,
              !.pc = "loop"]

\* The callback the method hands to Range has run on (k, v) and returned cont.
\* Len's callback (count += 1; return true) always continues.  The callback of
\* Iter, Keys and Values has been called on (k, v) and waits in its send
\* (ch <- ...); it returns true after it.
Visited(r, k, v, cont) ==
    [r EXCEPT !.todo = @ \ {k}, !.key = k, !.evicted = NoEntry,
              !.log = IF mode # "conc"
                        THEN Append(@, [key |-> k, val |-> v, cont |-> cont])
                        ELSE @,
              !.count = IF r.op \in {"Len", "IsEmpty"} THEN @ + 1 ELSE @,
              !.item = IF r.op \in IterOps THEN items[k] ELSE @,
              !.vis = IF r.op \in IterOps THEN now ELSE @,
              !.pc = CASE r.op \in IterOps -> "send"
                       [] cont -> "loop"
                       [] OTHER -> "done"]

\* Faulty variant: Range hands every entry to the callback, expired or not.
Range_Next_VisitAll(t, k, cont) ==
    /\ t \in Active
    /\ th[t].op \in RangeOps
    /\ th[t].pc = "loop"
    /\ k \in th[t].todo
    /\ items[k].ok
    /\ UNCHANGED items
    /\ (th[t].op = "Range" \/ cont)
    /\ Step(t, Visited(th[t], k, items[k].val, cont), {k})

\* The backing Range reaches the entry under k and calls the closure of
\* Range on it: an expired entry is to be deleted, a live one is visited.
Range_Next(t, k, cont) ==
    /\ t \in Active
    /\ th[t].op \in RangeOps \cup IterOps
    /\ th[t].pc = "loop"
    /\ k \in th[t].todo
    /\ items[k].ok
    /\ UNCHANGED items
    /\ IF Expired(items[k], th[t].tnow)
         THEN /\ cont
              /\ Step(t, [th[t] EXCEPT !.pc = "evict", !.key = k, !.item = items[k],
                                       !.evicted = NoEntry, !.todo = @ \ {k}], {k})
         ELSE /\ (th[t].op = "Range" \/ cont)
              /\ Step(t, Visited(th[t], k, items[k].val, cont), {k})

Range_Delete(t) ==
    /\ t \in Active
    /\ th[t].op \in RangeOps \cup IterOps
    /\ th[t].pc = "evict"
    /\ items' = CMapDelete(items, th[t].key).map
    /\ Step(t, [th[t] EXCEPT !.pc = "loop", !.evicted = items[th[t].key]], {th[t].key})

\* The traversal has no entry left to reach: Range returns, Len returns count,
\* IsEmpty returns Len() == 0, the go func() of Iter, Keys and Values goes on
\* to close(ch).
Range_Return(t) ==
    /\ t \in Active
    /\ th[t].op \in RangeOps \cup IterOps
    /\ th[t].pc = "loop"
    /\ \A k \in th[t].todo : ~items[k].ok
    /\ UNCHANGED items
    /\ Step(t, [th[t] EXCEPT !.pc = IF th[t].op \in IterOps THEN "close" ELSE "done",
                             !.todo = {},
                             !.retN = IF th[t].op = "Len" THEN th[t].count ELSE 0,
                             !.retOk = (th[t].op = "IsEmpty" /\ th[t].count = 0)], {})

\* ------------------------------------------------- Iter, Keys, Values
\* What the channel of op carries for the entry (k, v): cmap.Entry{k, v},
\* the key or the value.
Sent(op, k, v) ==
    CASE op = "Iter" -> <<k, v>>
      [] op = "Keys" -> <<k>>
      [] OTHER -> <<v>>

\* Iter(), Keys() or Values(): ch := make(chan ...), go func() {...}(),
\* return ch; the caller then ranges over ch.
Iter_Go(t, op) ==
    /\ op \in IterOps
    /\ CanCall(t, op, 1, 0)
    /\ UNCHANGED items
    /\ th' = [th EXCEPT ![t] = Begin(op, 1, ZeroVal, 0),
                        ![Producer] = [Begin(op, 1, ZeroVal, 0) EXCEPT !.pc = "spawned"]]
    /\ calls' = [calls EXCEPT ![t] = @ + 1]
    /\ ch' = [NoChan EXCEPT !.made = TRUE, !.cons = "recv"]
    /\ UNCHANGED <<now, mode, prev, hist, script>>

\* The go func() starts m.Range: now := time.Now().
Iter_Range_Now(t) ==
    /\ t \in Active
    /\ th[t].op \in IterOps
    /\ th[t].pc = "spawned"
    /\ UNCHANGED items
    /\ Step(t, [th[t] EXCEPT !.pc = "loop", !.tnow = now, !.todo = Keys], {})

\* Faulty variant: the channel has a buffer, the send does not wait for the
\* consumer.
Iter_Send_Buffered(t) ==
    /\ t \in Active
    /\ th[t].op \in IterOps
    /\ th[t].pc = "send"
    /\ UNCHANGED items
    /\ th' = [th EXCEPT ![t].pc = "loop"]
    /\ ch' = IF ch.cons = "recv"
               THEN [ch EXCEPT !.rcv = Append(@,
                         [msg |-> Sent(th[t].op, th[t].key, th[t].item.val),
                          key |-> th[t].key, item |-> th[t].item,
                          vis |-> th[t].vis, at |-> now])]
               ELSE ch
    /\ UNCHANGED <<now, mode, calls, prev, hist, script>>

\* ch <- item meets the receive of the consumer's for-range loop: the item
\* passes, the callback returns true.
Iter_Send(t) ==
    /\ t \in Active
    /\ th[t].op \in IterOps
    /\ th[t].pc = "send"
    /\ ch.cons = "recv"
    /\ UNCHANGED items
    /\ th' = [th EXCEPT ![t].pc = "loop"]
    /\ ch' = [ch EXCEPT !.rcv = Append(@,
                  [msg |-> Sent(th[t].op, th[t].key, th[t].item.val),
                   key |-> th[t].key, item |-> th[t].item,
                   vis |-> th[t].vis, at |-> now])]
    /\ UNCHANGED <<now, mode, calls, prev, hist, script>>

\* Faulty variant: the go func() returns without close(ch).
Iter_Close_Forgotten(t) ==
    /\ t \in Active
    /\ th[t].op \in IterOps
    /\ th[t].pc = "close"
    /\ UNCHANGED items
    /\ th' = [th EXCEPT ![t].pc = "done"]
    /\ UNCHANGED <<now, mode, calls, prev, hist, script, ch>>

\* close(ch), and the go func() returns.
Iter_Close(t) ==
    /\ t \in Active
    /\ th[t].op \in IterOps
    /\ th[t].pc = "close"
    /\ UNCHANGED items
    /\ th' = [th EXCEPT ![t].pc = "done"]
    /\ ch' = [ch EXCEPT !.closed = TRUE]
    /\ UNCHANGED <<now, mode, calls, prev, hist, script>>

\* The consumer's receive finds the channel closed: its for-range loop ends.
Iter_RecvClosed ==
    /\ ch.cons = "recv"
    /\ ch.closed
    /\ ch' = [ch EXCEPT !.cons = "drained"]
    /\ UNCHANGED <<items, now, th, calls, mode, prev, hist, script>>

\* The consumer leaves its loop (break, return) before the channel is closed.
Iter_Leave ==
    /\ ch.cons = "recv"
    /\ ~ch.closed
    /\ ch' = [ch EXCEPT !.cons = "left"]
    /\ UNCHANGED <<items, now, th, calls, mode, prev, hist, script>>

\* ------------------------------------------------------------- writers
\* wg.Wait() returns: every goroutine of the phase has finished.
Barrier ==
    /\ mode = "writers"
    /\ \A t \in Threads : th[t].pc \in {"idle", "done"}
    /\ \/ /\ script.phase = "set"
          /\ \A k \in Keys : script.wrote[k].ok
          /\ script' = [script EXCEPT !.phase = "check"]
       \/ /\ script.phase = "check"
          /\ script.counted
          /\ script.got = Keys
          /\ script' = [script EXCEPT !.phase = "delete", !.counted = FALSE]
       \/ /\ script.phase = "delete"
          /\ script.deleted = Keys
          /\ script' = [script EXCEPT !.phase = "final"]
    /\ UNCHANGED <<items, now, th, calls, mode, prev, hist, ch>>

\* ------------------------------------------------------------- spec
\* New(): an empty map; no goroutine has called anything.
InitMap ==
    /\ items = EmptyMap
    /\ now = 0
    /\ th = [t \in Threads |-> Blank]
    /\ calls = [t \in Threads |-> 0]
    /\ prev = [t \in Threads |-> NoPrev]
    /\ hist = NoHist
    /\ ch = NoChan

Init == InitMap /\ mode = "conc" /\ script = NoScript

SeqInit == InitMap /\ mode = "seq" /\ script = NoScript

WritersInit == InitMap /\ mode = "writers" /\ script = [NoScript EXCEPT !.phase = "set"]

Next ==
    \/ Tick
    \/ \E t \in Threads, k \in Keys, v \in Vals, d \in Times :
          \/ SetIfAbsent(t, k, v, d)
          \/ Set(t, k, v, d)
          \/ GetOrSet_LoadOrStore(t, k, v, d)
    \/ \E t \in Threads, k \in Keys :
          \/ Delete(t, k)
          \/ Remove(t, k)
          \/ Has_Get(t, k)
          \/ Get_Get(t, k)
    \/ \E t \in Threads, op \in RangeOps : Range_Now(t, op)
    \/ \E t \in Threads, k \in Keys, cont \in BOOLEAN : Range_Next(t, k, cont)
    \/ \E t \in Threads :
          \/ Range_Delete(t)
          \/ Range_Return(t)
          \/ Clear(t)
          \/ GetOrSet_Check(t)
          \/ GetOrSet_Set(t)
          \/ Has_Check(t)
          \/ Has_Delete(t)
          \/ Get_Check(t)
          \/ Get_Delete(t)

Spec == Init /\ [][Next]_vars

\* One goroutine: the calls follow one another, only the clock runs beside them.
SeqSpec == SeqInit /\ [][Next]_vars

\* The writers program: the calls TestAsyncCount and TestConcurrent make.
WritersNext ==
    \/ Tick
    \/ Barrier
    \/ \E t \in Threads, k \in Keys, v \in Vals, d \in Times : Set(t, k, v, d)
    \/ \E t \in Threads, k \in Keys :
          \/ Delete(t, k)
          \/ Get_Get(t, k)
    \/ \E t \in Threads : Range_Now(t, "Len")
    \/ \E t \in Threads, k \in Keys : Range_Next(t, k, TRUE)
    \/ \E t \in Threads :
          \/ Get_Check(t)
          \/ Get_Delete(t)
          \/ Range_Delete(t)
          \/ Range_Return(t)

WritersSpec == WritersInit /\ [][WritersNext]_vars

\* The iterating program (TestIterator, TestKeys): Sets, then Iter, Keys or
\* Values, consumed while the clock runs and nothing else touches the map.
IterInit == InitMap /\ mode = "iter" /\ script = NoScript

\* The steps of the go func().
ProducerStep ==
    \/ Iter_Range_Now(Producer)
    \/ \E k \in Keys : Range_Next(Producer, k, TRUE)
    \/ Range_Delete(Producer)
    \/ Range_Return(Producer)
    \/ Iter_Close(Producer)

IterNext ==
    \/ Tick
    \/ \E k \in Keys, v \in Vals, d \in Times : Set(Consumer, k, v, d)
    \/ \E op \in IterOps : Iter_Go(Consumer, op)
    \/ ProducerStep
    \/ Iter_Send(Producer)
    \/ Iter_RecvClosed
    \/ Iter_Leave

\* The scheduler runs a goroutine that can take a step: the go func() goes on
\* while it is not waiting in a send, and a send and a receive that wait for
\* each other meet.
IterSpec ==
    /\ IterInit
    /\ [][IterNext]_vars
    /\ WF_vars(ProducerStep)
    /\ WF_vars(Iter_Send(Producer))
    /\ WF_vars(Iter_RecvClosed)

\* ------------------------------------------------------------- properties
\* The deadline of entry e lies before the time t.
DeadlinePassed(e, t) == e.ttl < t

\* The entry {v, d}.
EntryOf(v, d) == [ok |-> TRUE, val |-> v, ttl |-> d]

\* The number of entries of map m whose deadline has not passed at time t.
LiveCount(m, t) == Cardinality({k \in Keys : m[k].ok /\ ~DeadlinePassed(m[k], t)})

\* Map m without the entries whose deadline has passed at time t.
WithoutExpired(m, t) ==
    [k \in Keys |-> IF m[k].ok /\ DeadlinePassed(m[k], t) THEN NoEntry ELSE m[k]]

\* The single goroutine of "seq" has returned from a call of op.
SeqDone(op) == mode = "seq" /\ th[1].pc = "done" /\ th[1].op = op

\* C2: a Get or Has of a key whose entry's deadline has passed reports the key
\* absent (zero value, false) and removes the entry, and nothing else, from
\* the map; the Len that follows a Get or Has that reported a key absent does
\* not count that key.
C2_ExpiredReadEvicts ==
    LET r == th[1]
        p == prev[1]
    IN  /\ \A op \in {"Get", "Has"} :
              (SeqDone(op) /\ r.pre[r.key].ok /\ DeadlinePassed(r.pre[r.key], r.at))
                 => /\ ~r.retOk
                    /\ r.retVal = ZeroVal
                    /\ items = [r.pre EXCEPT ![r.key] = NoEntry]
        /\ (SeqDone("Len") /\ p.op \in {"Get", "Has"} /\ ~p.retOk)
              => /\ ~r.pre[p.key].ok
                 /\ r.retN = Cardinality({k \in Keys \ {p.key} :
                                 r.pre[k].ok /\ ~DeadlinePassed(r.pre[k], r.tnow)})

\* A Len has followed a Get that found its key's entry expired and evicted it.
C2_Witness ==
    /\ SeqDone("Len")
    /\ prev[1].op = "Get"
    /\ prev[1].evicted
    /\ ~prev[1].retOk

\* C3: alone, GetOrSet(k, v, d) stores {v, d} and returns v when k has no
\* entry or an entry whose deadline has passed at the clock value the call
\* reads, and otherwise returns the value of the live entry and leaves the map
\* as it was; a GetOrSet(k, v2, future) after a GetOrSet(k, v1, past) that
\* stored {v1, past} returns v2 and leaves {v2, future} in the map.
C3_GetOrSetOutcomes ==
    LET r == th[1]
        p == prev[1]
        old == r.pre[r.key]
    IN  /\ SeqDone("GetOrSet") =>
              IF ~old.ok \/ DeadlinePassed(old, r.tnow)
                THEN /\ r.retVal = r.val
                     /\ items = [r.pre EXCEPT ![r.key] = EntryOf(r.val, r.ttl)]
                ELSE /\ r.retVal = old.val
                     /\ items = r.pre
        /\ (SeqDone("GetOrSet") /\ p.op = "GetOrSet" /\ p.key = r.key
                /\ p.ttl < p.at /\ old = EntryOf(p.val, p.ttl) /\ r.ttl > r.at)
              => /\ r.retVal = r.val
                 /\ items[r.key] = EntryOf(r.val, r.ttl)

\* GetOrSet(k, v2, future) has returned after GetOrSet(k, v1, past), v1 # v2.
C3_Witness ==
    /\ SeqDone("GetOrSet")
    /\ prev[1].op = "GetOrSet"
    /\ prev[1].key = th[1].key
    /\ prev[1].ttl < prev[1].at
    /\ th[1].pre[th[1].key] = EntryOf(prev[1].val, prev[1].ttl)
    /\ th[1].ttl > th[1].at
    /\ prev[1].val # th[1].val
    /\ th[1].retVal = th[1].val

\* C4: SetIfAbsent(k, v, d) stores {v, d} and returns true exactly when the map
\* has no entry under k; an entry under k, expired or not, makes it return
\* false and stays as it was.
C4_SetIfAbsentOnlyIfAbsent ==
    LET r == th[1]
        old == r.pre[r.key]
    IN  SeqDone("SetIfAbsent") =>
          /\ r.retOk = ~old.ok
          /\ items = IF old.ok THEN r.pre
                               ELSE [r.pre EXCEPT ![r.key] = EntryOf(r.val, r.ttl)]

\* SetIfAbsent has returned false on a key whose entry had expired, and the
\* expired entry is still there.
C4_Witness ==
    LET r == th[1]
        old == r.pre[r.key]
    IN  /\ SeqDone("SetIfAbsent")
        /\ old.ok
        /\ DeadlinePassed(old, r.at)
        /\ old.val # r.val
        /\ ~r.retOk
        /\ items[r.key] = old

\* C10: Delete(k) and Remove(k) remove the entry under k, live or expired, and
\* nothing else, and return true exactly when there was one; the Get(k) that
\* follows reports k absent and the Len that follows does not count k.
C10_DeleteRemove ==
    LET r == th[1]
        p == prev[1]
    IN  /\ \A op \in {"Delete", "Remove"} :
              SeqDone(op) => /\ r.retOk = r.pre[r.key].ok
                             /\ items = [r.pre EXCEPT ![r.key] = NoEntry]
        /\ (SeqDone("Get") /\ p.op \in {"Delete", "Remove"} /\ p.key = r.key)
              => (~r.retOk /\ r.retVal = ZeroVal)
        /\ (SeqDone("Len") /\ p.op \in {"Delete", "Remove"})
              => /\ ~r.pre[p.key].ok
                 /\ r.retN = Cardinality({k \in Keys \ {p.key} :
                                 r.pre[k].ok /\ ~DeadlinePassed(r.pre[k], r.tnow)})

\* Delete has removed an entry whose deadline had passed, and returned true.
C10_Witness ==
    LET r == th[1]
    IN  /\ SeqDone("Delete")
        /\ r.pre[r.key].ok
        /\ DeadlinePassed(r.pre[r.key], r.at)
        /\ r.retOk
        /\ ~items[r.key].ok

\* Goroutine t has returned from a call of op.
Done(t, op) == th[t].pc = "done" /\ th[t].op = op

\* C1: a Get(k) issued after Set(k, v, d), d in the future, with no Set,
\* GetOrSet, Delete, Remove or Clear on k in between and the clock not past d,
\* returns (v, true).
C1_GetAfterSet ==
    \A t \in Threads :
        LET r == th[t] IN
        (mode = "conc" /\ Done(t, "Get") /\ r.g.ok /\ hist.lastSet[r.key] = r.g
            /\ ~DeadlinePassed(r.g, now))
          => (r.retOk /\ r.retVal = r.g.val)

\* C5: a lazy eviction removes only the expired entry its call read: it never
\* removes another entry, written meanwhile, whose deadline has not passed.
C5_EvictionSparesLiveEntry ==
    \A t \in Threads :
        (th[t].evicted.ok /\ th[t].evicted # th[t].item)
          => DeadlinePassed(th[t].evicted, now)

\* C6: GetOrSet calls with deadlines in the future that have all returned, on a
\* key no other call came to since the first of them began, have returned one
\* value, and the map holds that value.
C6_GetOrSetAgree ==
    \A k \in Keys :
        LET G == hist.grp[k] IN
        (mode = "conc" /\ Cardinality(G) >= 2
            /\ \A t \in G : Done(t, "GetOrSet") /\ th[t].ttl > th[t].at)
          => /\ items[k].ok
             /\ \A t \in G : th[t].retVal = items[k].val

\* C7: in the writers program, after the Sets, Len returns the number of keys
\* and Get of each key returns the value written for it, as long as the
\* deadlines written have not passed; after the Deletes, Len returns 0.
C7_WritersCount ==
    LET r == th[1] IN
    /\ (mode = "writers" /\ Done(1, "Len") /\ r.ph = "check"
           /\ \A k \in Keys : ~DeadlinePassed(script.wrote[k], r.tnow))
          => r.retN = Cardinality(Keys)
    /\ (mode = "writers" /\ Done(1, "Get") /\ r.ph = "check"
           /\ ~DeadlinePassed(script.wrote[r.key], now))
          => (r.retOk /\ r.retVal = script.wrote[r.key].val)
    /\ (mode = "writers" /\ Done(1, "Len") /\ r.ph = "final") => r.retN = 0

\* The writers program has run to its end: the last Len has returned 0.
C7_Witness ==
    /\ mode = "writers"
    /\ Done(1, "Len")
    /\ th[1].ph = "final"
    /\ script.deleted = Keys
    /\ th[1].retN = 0

\* C8: alone, a Range visits each entry whose deadline has not passed at the
\* clock value it read at most once, and exactly once unless a visit returned
\* false, which is then its last visit; it visits no expired entry, and removes
\* from the map the expired entries it came to, all of them when no visit
\* returned false, and nothing else.
C8_RangeVisits ==
    LET r == th[1]
        n == Len(r.log)
        live == {k \in Keys : r.pre[k].ok /\ ~DeadlinePassed(r.pre[k], r.tnow)}
        stopped == n > 0 /\ ~r.log[n].cont
    IN  SeqDone("Range") =>
          /\ \A i \in 1..(n - 1) : r.log[i].cont
          /\ \A i, j \in 1..n : i # j => r.log[i].key # r.log[j].key
          /\ \A i \in 1..n : /\ r.log[i].key \in live
                             /\ r.log[i].val = r.pre[r.log[i].key].val
          /\ ~stopped => /\ VisitedKeys(r.log) = live
                         /\ items = WithoutExpired(r.pre, r.tnow)
          /\ \A k \in Keys : items[k] \in {r.pre[k], WithoutExpired(r.pre, r.tnow)[k]}

\* A Range that ran to the end has visited a live entry and evicted an expired one.
C8_Witness ==
    LET r == th[1] IN
    /\ SeqDone("Range")
    /\ Len(r.log) = 1
    /\ r.log[1].cont
    /\ \E k \in Keys : r.pre[k].ok /\ DeadlinePassed(r.pre[k], r.tnow) /\ ~items[k].ok

\* C9: alone, Len returns the number of entries whose deadline has not passed at
\* the clock value it read and leaves no expired entry in the map, and IsEmpty
\* is true exactly when that number is 0.
C9_LenCountsLive ==
    LET r == th[1] IN
    /\ SeqDone("Len") => /\ r.retN = LiveCount(r.pre, r.tnow)
                         /\ items = WithoutExpired(r.pre, r.tnow)
    /\ SeqDone("IsEmpty") => /\ r.retOk = (LiveCount(r.pre, r.tnow) = 0)
                             /\ items = WithoutExpired(r.pre, r.tnow)

\* IsEmpty has returned true on a map whose only entries had expired.
C9_Witness ==
    LET r == th[1] IN
    /\ SeqDone("IsEmpty")
    /\ r.retOk
    /\ \E k \in Keys : r.pre[k].ok
    /\ \A k \in Keys : ~items[k].ok

\* C11: Clear leaves the map without any entry, whatever the deadlines of the
\* entries were; the Get and the Has that follow a Clear report their key
\* absent and the Len that follows returns 0, and they leave the map empty.
C11_ClearRemovesAll ==
    LET r == th[1]
        p == prev[1]
    IN  /\ SeqDone("Clear") => items = EmptyMap
        /\ (SeqDone("Get") /\ p.op = "Clear")
              => (~r.retOk /\ r.retVal = ZeroVal /\ items = EmptyMap)
        /\ (SeqDone("Has") /\ p.op = "Clear") => (~r.retOk /\ items = EmptyMap)
        /\ (SeqDone("Len") /\ p.op = "Clear") => (r.retN = 0 /\ items = EmptyMap)

\* Clear has removed an entry whose deadline had not passed.
C11_Witness ==
    LET r == th[1] IN
    /\ SeqDone("Clear")
    /\ \E k \in Keys : r.pre[k].ok /\ ~DeadlinePassed(r.pre[k], now)
    /\ items = EmptyMap

\* C12: an entry whose deadline equals the clock value a read takes counts as
\* expired: Get returns (zero value, false), Has returns false, both evict it,
\* and Len counts only the entries whose deadline lies after the clock value
\* it read and evicts the others.
C12_DeadlineExclusive ==
    LET r == th[1]
        old == r.pre[r.key]
    IN  /\ \A op \in {"Get", "Has"} :
              (SeqDone(op) /\ old.ok /\ old.ttl <= r.tnow)
                 => (~r.retOk /\ r.retVal = ZeroVal /\ ~items[r.key].ok)
        /\ SeqDone("Len")
              => /\ r.retN = Cardinality({k \in Keys : r.pre[k].ok /\ r.pre[k].ttl > r.tnow})
                 /\ \A k \in Keys : items[k].ok => items[k].ttl > r.tnow

\* C19: alone, Get(k) and Has(k) on a key without entry report it absent, and
\* on a key whose entry has not passed its deadline report it present, and
\* leave the map as it was; in every case they leave the entries of the other
\* keys as they were.
C19_ReadsFrame ==
    LET r == th[1]
        old == r.pre[r.key]
    IN  \A op \in {"Get", "Has"} :
          SeqDone(op) =>
            /\ ~old.ok => (~r.retOk /\ r.retVal = ZeroVal /\ items = r.pre)
            /\ (old.ok /\ ~DeadlinePassed(old, r.tnow))
                  => /\ r.retOk
                     /\ op = "Get" => r.retVal = old.val
                     /\ items = r.pre
            /\ \A k \in Keys \ {r.key} : items[k] = r.pre[k]
            /\ items # r.pre => (old.ok /\ DeadlinePassed(old, r.tnow))

\* Has has returned true on a live entry while the other key holds an expired
\* entry, which it left in the map.
C19_Witness ==
    LET r == th[1] IN
    /\ SeqDone("Has")
    /\ r.retOk
    /\ items = r.pre
    /\ \E k \in Keys \ {r.key} : items[k].ok /\ DeadlinePassed(items[k], now)

\* C20: alone and with the clock standing still, after a GetOrSet(k, v, d)
\* with d in the future has returned x, Get(k) returns (x, true) and Has(k)
\* returns true.
C20_GetOrSetThenRead ==
    LET r == th[1]
        p == prev[1]
    IN  \A op \in {"Get", "Has"} :
          (SeqDone(op) /\ p.op = "GetOrSet" /\ p.key = r.key /\ p.ttl > p.at
              /\ now = p.at)
            => /\ r.retOk
               /\ op = "Get" => r.retVal = p.retVal

\* Get has followed a GetOrSet that returned the value of a live entry, not the
\* value it was called with.
C20_Witness ==
    LET r == th[1]
        p == prev[1]
    IN  /\ SeqDone("Get")
        /\ p.op = "GetOrSet"
        /\ p.key = r.key
        /\ p.ttl > p.at
        /\ now = p.at
        /\ p.retVal # p.val
        /\ r.retOk
        /\ r.retVal = p.retVal

\* The keys a read has reported present so far.
Present(r) ==
    CASE r.op \in {"Get", "Has"} -> IF r.retOk THEN {r.key} ELSE {}
      [] r.op \in RangeOps -> VisitedKeys(r.log)
      [] OTHER -> {}

\* C15: alone, with no Set, SetIfAbsent or GetOrSet between them, a Len or a
\* Range that runs to its end counts no more entries than the Len or such
\* Range before it did, and a read reports no key present that an earlier
\* Get, Has, Range or Len reported absent or evicted.
C15_CountsShrink ==
    LET r == th[1]
        p == prev[1]
    IN  mode = "seq" =>
          /\ Present(r) \cap p.absent = {}
          /\ (SeqDone("Len") /\ p.cnt >= 0) => r.retN <= p.cnt
          /\ (SeqDone("Range") /\ p.cnt >= 0) => Len(r.log) <= p.cnt

\* A Len has returned less than the Len before it: the clock has passed a
\* deadline between them.
C15_Witness ==
    /\ SeqDone("Len")
    /\ prev[1].op = "Len"
    /\ prev[1].retN > th[1].retN
    /\ prev[1].tnow < th[1].tnow

\* C16: under any interleaving, the step of Set(k, v, d) leaves the map with
\* exactly the entry {v, d} under k and the other keys as they were, and
\* returns true exactly when k had an entry, live or expired, before it; and
\* every step that puts an entry under a key puts there the value and the
\* deadline of one call, the Set, SetIfAbsent or GetOrSet that takes the step.
C16_SetUpserts ==
    [][ /\ \A t \in Threads :
              (calls'[t] # calls[t] /\ th'[t].op = "Set")
                 => /\ items' = [items EXCEPT ![th'[t].key] =
                                                EntryOf(th'[t].val, th'[t].ttl)]
                    /\ th'[t].retOk = items[th'[t].key].ok
                    /\ th'[t].pc = "done"
        /\ \A k \in Keys :
              (items'[k] # items[k] /\ items'[k].ok)
                 => \E t \in Threads :
                       /\ (th'[t] # th[t] \/ calls'[t] # calls[t])
                       /\ th'[t].op \in {"Set", "SetIfAbsent", "GetOrSet"}
                       /\ th'[t].key = k
                       /\ items'[k] = EntryOf(th'[t].val, th'[t].ttl)
      ]_vars

\* A Set has replaced an entry with another value and deadline, and returned
\* true, while a GetOrSet on the same key is about to overwrite the entry.
C16_Witness ==
    \E t, u \in Threads :
        /\ t # u
        /\ Done(t, "Set")
        /\ th[t].retOk
        /\ items[th[t].key] = EntryOf(th[t].val, th[t].ttl)
        /\ th[u].op = "GetOrSet"
        /\ th[u].pc = "write"
        /\ th[u].key = th[t].key
        /\ th[u].item.ok
        /\ th[u].item.val # th[t].val
        /\ th[u].item.ttl # th[t].ttl

\* C17: under any interleaving, the value a GetOrSet(k, v, d) returns is one
\* the map held under k at some moment from the start of the call to its
\* return.
C17_GetOrSetReturnsStored ==
    \A t \in Threads :
        (mode = "conc" /\ Done(t, "GetOrSet")) => th[t].retVal \in hist.saw[t]

\* A GetOrSet has returned the value of the entry it loaded, not its own, and
\* another goroutine has since replaced that entry.
C17_Witness ==
    \E t \in Threads :
        /\ mode = "conc"
        /\ Done(t, "GetOrSet")
        /\ th[t].retVal # th[t].val
        /\ items[th[t].key].ok
        /\ items[th[t].key].val # th[t].retVal
        /\ Cardinality(hist.saw[t]) = 2

\* The keys whose entries Iter, Keys or Values finds live: those of the map at
\* the call whose deadline has not passed at the clock value its Range read.
IterLive ==
    {k \in Keys : th[Consumer].pre[k].ok
                     /\ ~DeadlinePassed(th[Consumer].pre[k], th[Producer].tnow)}

\* C13: when the consumer of Iter, Keys or Values goes on receiving and nothing
\* else touches the map, the go func() ends and the channel is closed, the
\* consumer's loop ends, and by then the consumer has received, once each, the
\* item of every entry whose deadline had not passed at the clock value Range
\* read, and nothing else.
C13_IterDrains ==
    /\ [](ch.cons = "drained" =>
            /\ th[Producer].pc = "done"
            /\ {ch.rcv[i].key : i \in 1..Len(ch.rcv)} = IterLive
            /\ Len(ch.rcv) = Cardinality(IterLive)
            /\ \A i \in 1..Len(ch.rcv) :
                  /\ ch.rcv[i].item = th[Consumer].pre[ch.rcv[i].key]
                  /\ ch.rcv[i].msg = Sent(th[Consumer].op, ch.rcv[i].key,
                                          th[Consumer].pre[ch.rcv[i].key].val))
    /\ (ch.made ~> (ch.cons = "left" \/ (ch.closed /\ th[Producer].pc = "done")))
    /\ (ch.made ~> (ch.cons \in {"left", "drained"}))

\* The consumer of Values has drained the channel: it has received the value
\* of the one live entry, and the expired entry has been evicted.
C13_Witness ==
    /\ ch.cons = "drained"
    /\ th[Consumer].op = "Values"
    /\ Len(ch.rcv) = 1
    /\ \E k \in Keys : th[Consumer].pre[k].ok /\ ~items[k].ok
    /\ \E k \in Keys : ch.rcv[1].msg = <<items[k].val>> /\ items[k].val # ZeroVal

\* The go func() has an entry yet to send: it waits in a send, or its traversal
\* has yet to reach an entry that it will find live.
Remains ==
    LET r == th[Producer] IN
    \/ r.pc = "send"
    \/ /\ r.pc \in {"loop", "evict"}
       /\ \E k \in r.todo : items[k].ok /\ ~DeadlinePassed(items[k], r.tnow)
    \/ /\ r.pc = "spawned"
       /\ \E k \in Keys : items[k].ok /\ ~DeadlinePassed(items[k], MaxTime)

\* The consumer has stopped receiving while the go func() has an entry to send.
Leaked == ch.cons = "left" /\ Remains

\* C14: once the consumer of Iter, Keys or Values has stopped receiving while
\* an entry remains to be sent, this stays so for ever: the go func() never
\* returns and never closes the channel; it reaches the send of that entry and
\* waits there, no step takes it out of it.
C14_AbandonedProducerBlocks ==
    /\ [][Leaked => (Leaked' /\ ~ch'.closed /\ th'[Producer].pc # "done")]_vars
    /\ [][(ch.cons = "left" /\ th[Producer].pc = "send")
             => (th'[Producer].pc = "send" /\ th'[Producer].key = th[Producer].key)]_vars
    /\ (Leaked ~> [](th[Producer].pc = "send"))

\* The consumer has received one item and left; the go func() waits in the
\* send of the next.
C14_Witness ==
    /\ ch.cons = "left"
    /\ Len(ch.rcv) = 1
    /\ th[Producer].pc = "send"
    /\ th[Producer].key # ch.rcv[1].key
    /\ ~ch.closed

\* C18: Iter, Keys and Values visit an entry and send its item only while the
\* deadline of the entry has not passed: not at the clock value of the visit,
\* and not at the clock value of the receive.
C18_PresentedWhileLive ==
    /\ \A i \in 1..Len(ch.rcv) :
          /\ ~DeadlinePassed(ch.rcv[i].item, ch.rcv[i].vis)
          /\ ~DeadlinePassed(ch.rcv[i].item, ch.rcv[i].at)
    /\ (th[Producer].op \in IterOps /\ th[Producer].pc = "send")
          => ~DeadlinePassed(th[Producer].item, th[Producer].vis)

====
